---- MODULE Spec2Model ----
\* Model of gap_query_interval_tree's NoGapsRefGapQueryIntervalTree (the
\* "SegmentedMap"): a DiscreteRangeMap from inclusive intervals to identifier
\* sets that is meant to cover [MIN, MAX] without gaps.
EXTENDS Integers, Sequences, FiniteSets

\* ---------------------------------------------------------------- bounds
\* The point type I is scaled down to MIN..MAX = 0..MaxPoint.
MaxPoint == 2
\* Number of mutating calls explored from the two fresh maps.
MaxOps == 2

\* I::MIN / I::MAX of the DiscreteFinite point type.
MIN == 0
MAX == MaxPoint

Points == MIN..MAX
\* The identifier type D is scaled down to the two identifiers of the crate's
\* documentation examples.
Identifiers == {5, 9}
IdentifierSets == SUBSET Identifiers
\* Option<T>: None is the empty sequence, Some(x) the one-element sequence
\* (what Option::into_iter yields).
None == <<>>
Some(x) == <<x>>
\* with_identifiers: Option<BTreeSet<D>>
OptionalIdentifierSets == {None} \cup {Some(S) : S \in IdentifierSets}
\* InclusiveInterval { start, end } with start <= end.
Intervals == {k \in [start : Points, end : Points] : k.start <= k.end}
Interval(s, e) == [start |-> s, end |-> e]
FullInterval == Interval(MIN, MAX)

\* The two SegmentedMap instances of the model.
Trees == {"a", "b"}
Other(t) == IF t = "a" THEN "b" ELSE "a"

Max2(x, y) == IF x >= y THEN x ELSE y
Min2(x, y) == IF x <= y THEN x ELSE y

\* ------------------------------------------- InclusiveRange helper methods
\* k.contains(p)
contains(k, p) == k.start <= p /\ p <= k.end
\* the overlap test used by the range map's overlapping/cut/insert
overlaps(k, q) == k.start <= q.end /\ q.start <= k.end
\* x.overlaps_ordered(&y)
overlaps_ordered(x, y) == contains(x, y.start) \/ contains(x, y.end)
\* x.touches_ordered(&y): y starts right after x ends
touches_ordered(x, y) == x.end + 1 = y.start
\* x.merge_ordered(&y)
merge_ordered(x, y) == Interval(x.start, y.end)

\* --------------------------------------------- DiscreteRangeMap primitive
\* The store is the key-ordered sequence of entries [k |-> interval,
\* ids |-> identifier set]; the empty sequence is DiscreteRangeMap::new().
Entry(k, ids) == [k |-> k, ids |-> ids]

\* ordered insertion of one entry that overlaps none of the stored ones
put(inner, e) ==
    SelectSeq(inner, LAMBDA x : x.k.start < e.k.start)
        \o <<e>>
        \o SelectSeq(inner, LAMBDA x : x.k.start > e.k.start)

\* inner.overlapping(q): the stored entries overlapping q, ascending
overlapping(inner, q) == SelectSeq(inner, LAMBDA x : overlaps(x.k, q))

Reverse(s) == [i \in 1..Len(s) |-> s[Len(s) + 1 - i]]

\* inner.remove_overlapping(q): the removed entries (ascending) and what stays
remove_overlapping(inner, q) ==
    [removed |-> overlapping(inner, q),
     inner   |-> SelectSeq(inner, LAMBDA x : ~overlaps(x.k, q))]

\* inner.insert_strict(k, v): Err(OverlapError) when k overlaps a stored key
insert_strict(inner, k, v) ==
    IF Len(overlapping(inner, k)) > 0
    THEN [err |-> TRUE, inner |-> inner]
    ELSE [err |-> FALSE, inner |-> put(inner, Entry(k, v))]

\* the out-of-range halves of a stored entry x that crosses a boundary of q
remainders(x, q) ==
    (IF x.k.start < q.start
     THEN <<Entry(Interval(x.k.start, q.start - 1), x.ids)>> ELSE <<>>)
    \o
    (IF x.k.end > q.end
     THEN <<Entry(Interval(q.end + 1, x.k.end), x.ids)>> ELSE <<>>)

RECURSIVE flatten(_)
flatten(ss) == IF Len(ss) = 0 THEN <<>> ELSE Head(ss) \o flatten(Tail(ss))

\* inner_cut with a slip: the overlapping entries are removed whole, their
\* out-of-range halves are not put back
inner_cut_without_halves(inner, q) ==
    LET ov == overlapping(inner, q)
        piece(x) == Entry(Interval(Max2(x.k.start, q.start), Min2(x.k.end, q.end)), x.ids)
    IN [pieces |-> [i \in 1..Len(ov) |-> piece(ov[i])],
        inner  |-> SelectSeq(inner, LAMBDA x : ~overlaps(x.k, q))]

\* inner_cut with a slip: the pieces are returned but the overlapping entries
\* are left in the map as they were
inner_cut_not_removing(inner, q) ==
    LET ov == overlapping(inner, q)
        piece(x) == Entry(Interval(Max2(x.k.start, q.start), Min2(x.k.end, q.end)), x.ids)
    IN [pieces |-> [i \in 1..Len(ov) |-> piece(ov[i])], inner |-> inner]

\* inner.cut(q): the in-range pieces of every overlapping entry (ascending,
\* values cloned) are returned; the out-of-range halves stay in the map.
inner_cut(inner, q) ==
    LET ov == overlapping(inner, q)
        piece(x) == Entry(Interval(Max2(x.k.start, q.start), Min2(x.k.end, q.end)), x.ids)
    IN [pieces |-> [i \in 1..Len(ov) |-> piece(ov[i])],
        inner  |-> flatten([i \in 1..Len(inner) |->
                       IF overlaps(inner[i].k, q)
                       THEN remainders(inner[i], q)
                       ELSE <<inner[i]>>])]

\* insert_merge_touching_if_values_equal with a slip: only the neighbour on
\* the right is merged
insert_merge_touching_right_only(inner, k, v) ==
    IF Len(overlapping(inner, k)) > 0
    THEN [err |-> TRUE, inner |-> inner]
    ELSE LET right == SelectSeq(inner, LAMBDA x : touches_ordered(k, x.k) /\ x.ids = v)
             e == IF Len(right) > 0 THEN right[1].k.end ELSE k.end
             kept == SelectSeq(inner, LAMBDA x : ~(touches_ordered(k, x.k) /\ x.ids = v))
         IN [err |-> FALSE, inner |-> put(kept, Entry(Interval(k.start, e), v))]

\* insert_merge_touching_if_values_equal with a slip: only the neighbour on
\* the left is merged
insert_merge_touching_left_only(inner, k, v) ==
    IF Len(overlapping(inner, k)) > 0
    THEN [err |-> TRUE, inner |-> inner]
    ELSE LET left == SelectSeq(inner, LAMBDA x : touches_ordered(x.k, k) /\ x.ids = v)
             s == IF Len(left) > 0 THEN left[1].k.start ELSE k.start
             kept == SelectSeq(inner, LAMBDA x : ~(touches_ordered(x.k, k) /\ x.ids = v))
         IN [err |-> FALSE, inner |-> put(kept, Entry(Interval(s, k.end), v))]

\* inner.insert_merge_touching_if_values_equal(k, v): Err(OverlapError) when k
\* overlaps a stored key; otherwise k is stored, merged with the neighbour
\* touching it on either side when that neighbour's value equals v.
insert_merge_touching_if_values_equal(inner, k, v) ==
    IF Len(overlapping(inner, k)) > 0
    THEN [err |-> TRUE, inner |-> inner]
    ELSE LET left  == SelectSeq(inner, LAMBDA x : touches_ordered(x.k, k) /\ x.ids = v)
             right == SelectSeq(inner, LAMBDA x : touches_ordered(k, x.k) /\ x.ids = v)
             s == IF Len(left) > 0 THEN left[1].k.start ELSE k.start
             e == IF Len(right) > 0 THEN right[1].k.end ELSE k.end
             kept == SelectSeq(inner, LAMBDA x :
                        ~(touches_ordered(x.k, k) /\ x.ids = v)
                        /\ ~(touches_ordered(k, x.k) /\ x.ids = v))
         IN [err |-> FALSE, inner |-> put(kept, Entry(Interval(s, e), v))]

\* ------------------------------------------ NoGapsRefGapQueryIntervalTree
\* default with a slip: DiscreteRangeMap::new() without the first segment
default_without_segment == <<>>

\* Default::default(): one segment [MIN, MAX] with the empty identifier set.
default == insert_strict(<<>>, FullInterval, {}).inner

\* reinsert_all with a slip: pieces whose identifier set is empty are dropped
\* instead of being stored
RECURSIVE reinsert_all_skip_empty(_, _)
reinsert_all_skip_empty(inner, pieces) ==
    IF Len(pieces) = 0
    THEN [err |-> FALSE, inner |-> inner]
    ELSE IF Head(pieces).ids = {}
         THEN reinsert_all_skip_empty(inner, Tail(pieces))
         ELSE LET r == insert_merge_touching_if_values_equal(
                           inner, Head(pieces).k, Head(pieces).ids)
              IN IF r.err THEN r ELSE reinsert_all_skip_empty(r.inner, Tail(pieces))

\* reinsert_all with a slip: the pieces are stored with insert_strict, which
\* never merges touching segments
RECURSIVE reinsert_all_strict(_, _)
reinsert_all_strict(inner, pieces) ==
    IF Len(pieces) = 0
    THEN [err |-> FALSE, inner |-> inner]
    ELSE LET r == insert_strict(inner, Head(pieces).k, Head(pieces).ids)
         IN IF r.err THEN r ELSE reinsert_all_strict(r.inner, Tail(pieces))

\* the loop `for (k, ids) in pieces { inner.insert_merge_...(k, ids).unwrap() }`;
\* err records that an unwrap() met Err, i.e. the call panicked.
RECURSIVE reinsert_all(_, _)
reinsert_all(inner, pieces) ==
    IF Len(pieces) = 0
    THEN [err |-> FALSE, inner |-> inner]
    ELSE LET r == insert_merge_touching_if_values_equal(
                      inner, Head(pieces).k, Head(pieces).ids)
         IN IF r.err THEN r ELSE reinsert_all(r.inner, Tail(pieces))

\* insert with a slip: an identifier that a cut piece already holds is taken
\* out of it instead of staying in
insert_toggling(inner, identifiers, interval) ==
    LET c == inner_cut(inner, interval)
        extended_cut == [i \in 1..Len(c.pieces) |->
            Entry(c.pieces[i].k,
                  (c.pieces[i].ids \cup identifiers) \ (c.pieces[i].ids \cap identifiers))]
    IN reinsert_all(c.inner, extended_cut)

\* insert with a slip: the identifiers replace the set of each cut piece
\* instead of extending it
insert_replacing(inner, identifiers, interval) ==
    LET c == inner_cut(inner, interval)
        extended_cut == [i \in 1..Len(c.pieces) |-> Entry(c.pieces[i].k, identifiers)]
    IN reinsert_all(c.inner, extended_cut)

\* insert(&mut self, identifiers, interval)
insert(inner, identifiers, interval) ==
    LET c == inner_cut(inner, interval)
        extended_cut == [i \in 1..Len(c.pieces) |->
            Entry(c.pieces[i].k, c.pieces[i].ids \cup identifiers)]
    IN reinsert_all(c.inner, extended_cut)

\* cut with a slip: the retain predicate is inverted, the listed identifiers
\* are the ones kept
cut_retain_inverted(inner, identifiers, interval) ==
    LET c == inner_cut(inner, interval)
        retained == [i \in 1..Len(c.pieces) |->
            Entry(c.pieces[i].k, c.pieces[i].ids \cap identifiers)]
    IN reinsert_all(c.inner, retained)

\* cut with a slip: only the first (least) of the listed identifiers that a
\* piece holds is removed from it
cut_first_only(inner, identifiers, interval) ==
    LET c == inner_cut(inner, interval)
        first(ids) == {d \in ids \cap identifiers :
                        \A e \in ids \cap identifiers : d <= e}
        retained == [i \in 1..Len(c.pieces) |->
            Entry(c.pieces[i].k, c.pieces[i].ids \ first(c.pieces[i].ids))]
    IN reinsert_all(c.inner, retained)

\* cut(&mut self, identifiers, interval): retain the identifiers not listed
cut(inner, identifiers, interval) ==
    LET c == inner_cut(inner, interval)
        retained == [i \in 1..Len(c.pieces) |->
            Entry(c.pieces[i].k, c.pieces[i].ids \ identifiers)]
    IN reinsert_all(c.inner, retained)

\* cut(None, interval) of the Option generation of cut: every cut piece is
\* re-inserted with the empty identifier set.
cut_none(inner, interval) ==
    LET c == inner_cut(inner, interval)
        emptied == [i \in 1..Len(c.pieces) |-> Entry(c.pieces[i].k, {})]
    IN reinsert_all(c.inner, emptied)

\* cut(with_identifiers: Option<Set<D>>, interval) of the Option generation:
\* Some(S) is the cut of the source, None the cut of every identifier
cut_option(inner, with_identifiers, interval) ==
    IF with_identifiers = None
    THEN cut_none(inner, interval)
    ELSE cut(inner, with_identifiers[1], interval)

\* the body of append's loop: self.insert(identifiers, interval) per drained
\* segment, in order
RECURSIVE insert_all(_, _)
insert_all(inner, segments) ==
    IF Len(segments) = 0
    THEN [err |-> FALSE, inner |-> inner]
    ELSE LET r == insert(inner, Head(segments).ids, Head(segments).k)
         IN IF r.err THEN r ELSE insert_all(r.inner, Tail(segments))

\* append(&mut self, other): other.inner.remove_overlapping([MIN, MAX]) drains
\* other; each drained segment is inserted into self.
append(self, other) ==
    LET d == remove_overlapping(other, FullInterval)
        r == insert_all(self, d.removed)
    IN [err |-> r.err, self |-> r.inner, other |-> d.inner]

\* identifiers_at_point(p): the identifier set of the segment containing p,
\* the empty set when no stored segment contains p.
identifiers_at_point(inner, p) ==
    LET ov == overlapping(inner, Interval(p, p))
    IN IF Len(ov) = 0 THEN {} ELSE ov[1].ids

\* PartialEq: self.inner.eq(&other.inner), the two range maps hold the same
\* entries (same keys, equal identifier sets) in the same order
eq(self, other) ==
    /\ Len(self) = Len(other)
    /\ \A i \in 1..Len(self) :
        self[i].k = other[i].k /\ self[i].ids = other[i].ids

\* --------------------------------------------------------------- queries
\* valid_identifier(with_identifier, other_identifiers)
valid_identifier(with_identifier, other_identifiers) ==
    IF with_identifier # None
    THEN \/ other_identifiers = {}
         \/ (Cardinality(other_identifiers) = 1 /\ with_identifier[1] \in other_identifiers)
    ELSE other_identifiers = {}

\* Iterator::take_while over a sequence of entries
RECURSIVE take_while_valid(_, _)
take_while_valid(entries, identifier) ==
    IF Len(entries) = 0 \/ ~valid_identifier(Some(identifier), Head(entries).ids)
    THEN <<>>
    ELSE <<Head(entries)>> \o take_while_valid(Tail(entries), identifier)

keys(entries) == [i \in 1..Len(entries) |-> entries[i].k]

\* .coalesce(|x, y| Ok(x.merge_ordered(&y))).next()
RECURSIVE coalesce_right(_)
coalesce_right(ks) ==
    IF Len(ks) <= 1 THEN ks
    ELSE coalesce_right(<<merge_ordered(ks[1], ks[2])>> \o Tail(Tail(ks)))

\* .coalesce(|x, y| Ok(y.merge_ordered(&x))).next() over the reversed walk
RECURSIVE coalesce_left(_)
coalesce_left(ks) ==
    IF Len(ks) <= 1 THEN ks
    ELSE coalesce_left(<<merge_ordered(ks[2], ks[1])>> \o Tail(Tail(ks)))

\* .coalesce(|x, y| if x.touches_ordered(&y) { Ok(merge) } else { Err((x, y)) })
RECURSIVE coalesce_touching(_)
coalesce_touching(ks) ==
    IF Len(ks) <= 1 THEN ks
    ELSE IF touches_ordered(ks[1], ks[2])
         THEN coalesce_touching(<<merge_ordered(ks[1], ks[2])>> \o Tail(Tail(ks)))
         ELSE <<ks[1]>> \o coalesce_touching(Tail(ks))

\* expand_gaps_at_point_right(identifier, point) -> Option<K>
expand_gaps_at_point_right(inner, identifier, point) ==
    LET overlapping_right == overlapping(inner, Interval(point, MAX))
    IN coalesce_right(keys(take_while_valid(overlapping_right, identifier)))

\* expand_gaps_at_point_left with a slip: the walk to the left stops after the
\* segment containing the point
expand_gaps_at_point_left_unexpanded(inner, identifier, point) ==
    LET overlapping_left == Reverse(overlapping(inner, Interval(point, point)))
    IN coalesce_left(keys(take_while_valid(overlapping_left, identifier)))

\* expand_gaps_at_point_left(identifier, point) -> Option<K>
expand_gaps_at_point_left(inner, identifier, point) ==
    LET overlapping_left == Reverse(overlapping(inner, Interval(MIN, point)))
    IN coalesce_left(keys(take_while_valid(overlapping_left, identifier)))

\* get_gaps_with_identifier with a slip: the two end gaps are never merged
\* into one when they are the same gap
get_gaps_with_identifier_unmerged(inner, identifier, interval) ==
    LET valid_gaps == keys(SelectSeq(overlapping(inner, interval),
                        LAMBDA x : valid_identifier(Some(identifier), x.ids)))
        non_end_gaps == SelectSeq(valid_gaps, LAMBDA gap :
                        ~contains(gap, interval.start) /\ ~contains(gap, interval.end))
        left_gap == expand_gaps_at_point_left(inner, identifier, interval.start)
        right_gap == expand_gaps_at_point_right(inner, identifier, interval.end)
    IN coalesce_touching(left_gap \o non_end_gaps \o right_gap)

\* get_gaps_with_identifier(identifier, interval) -> Vec<K>
get_gaps_with_identifier(inner, identifier, interval) ==
    LET valid_gaps == keys(SelectSeq(overlapping(inner, interval),
                        LAMBDA x : valid_identifier(Some(identifier), x.ids)))
        non_end_gaps == SelectSeq(valid_gaps, LAMBDA gap :
                        ~contains(gap, interval.start) /\ ~contains(gap, interval.end))
        left_gap == expand_gaps_at_point_left(inner, identifier, interval.start)
        right_gap == expand_gaps_at_point_right(inner, identifier, interval.end)
        same == /\ left_gap # None /\ right_gap # None
                /\ overlaps_ordered(left_gap[1], right_gap[1])
        left2 == IF same THEN Some(merge_ordered(left_gap[1], right_gap[1])) ELSE left_gap
        right2 == IF same THEN None ELSE right_gap
    IN coalesce_touching(left2 \o non_end_gaps \o right2)

\* get_gaps_no_identifier with a slip: every free segment of the map is
\* returned, whether it overlaps the window or not
get_gaps_no_identifier_unfiltered(inner, interval) ==
    keys(SelectSeq(inner, LAMBDA x : x.ids = {}))

\* get_gaps_no_identifier with a slip: each gap is trimmed to the window
get_gaps_no_identifier_trimmed(inner, interval) ==
    LET found == keys(SelectSeq(overlapping(inner, interval), LAMBDA x : x.ids = {}))
    IN [i \in 1..Len(found) |->
            Interval(Max2(found[i].start, interval.start),
                     Min2(found[i].end, interval.end))]

\* get_gaps_no_identifier(interval) -> Vec<K>
get_gaps_no_identifier(inner, interval) ==
    keys(SelectSeq(overlapping(inner, interval), LAMBDA x : x.ids = {}))

\* gap_query(with_identifier, interval) -> Vec<K>
gap_query(inner, with_identifier, interval) ==
    IF with_identifier # None
    THEN get_gaps_with_identifier(inner, with_identifier[1], interval)
    ELSE get_gaps_no_identifier(inner, interval)

\* gap_query_at_point(with_identifier, at_point) -> Option<K>; assert_failed
\* records that the assert!(is_empty || len == 1) does not hold (a panic).
gap_query_at_point(inner, with_identifier, at_point) ==
    LET found == gap_query(inner, with_identifier, Interval(at_point, at_point))
    IN [assert_failed |-> ~(Len(found) = 0 \/ Len(found) = 1),
        result |-> IF Len(found) = 0 THEN None ELSE Some(found[Len(found)])]

\* ------------------------------------------------ DiscreteRangeSet primitive
\* A range-set is the ascending sequence of its stored intervals.
\* ordered insertion of one interval that overlaps none of the stored ones
set_put(rs, k) ==
    SelectSeq(rs, LAMBDA x : x.start < k.start)
        \o <<k>>
        \o SelectSeq(rs, LAMBDA x : x.start > k.start)

\* set.insert_merge_touching_or_overlapping(k): k is stored merged with every
\* stored interval it overlaps or touches
set_insert_merge_touching_or_overlapping(rs, k) ==
    LET joins(x) == overlaps(x, k) \/ touches_ordered(x, k) \/ touches_ordered(k, x)
        joined == SelectSeq(rs, joins)
        s == IF Len(joined) > 0 THEN Min2(k.start, joined[1].start) ELSE k.start
        e == IF Len(joined) > 0 THEN Max2(k.end, joined[Len(joined)].end) ELSE k.end
    IN set_put(SelectSeq(rs, LAMBDA x : ~joins(x)), Interval(s, e))

\* set.insert_merge_touching(k): Err(OverlapError) when k overlaps a stored
\* interval; otherwise k is stored merged with the intervals touching it
set_insert_merge_touching(rs, k) ==
    IF Len(SelectSeq(rs, LAMBDA x : overlaps(x, k))) > 0
    THEN [err |-> TRUE, set |-> rs]
    ELSE [err |-> FALSE, set |-> set_insert_merge_touching_or_overlapping(rs, k)]

\* the out-of-range halves of a stored interval x that crosses a boundary of q
set_remainders(x, q) ==
    (IF x.start < q.start THEN <<Interval(x.start, q.start - 1)>> ELSE <<>>)
    \o
    (IF x.end > q.end THEN <<Interval(q.end + 1, x.end)>> ELSE <<>>)

\* set.cut(q): what stays in the set (the cut pieces are discarded by the caller)
set_cut(rs, q) ==
    flatten([i \in 1..Len(rs) |->
        IF overlaps(rs[i], q) THEN set_remainders(rs[i], q) ELSE <<rs[i]>>])

\* set.contains_point(p)
set_contains_point(rs, p) == \E i \in 1..Len(rs) : contains(rs[i], p)

\* set.gaps(outer): the maximal intervals of outer that overlap no stored
\* interval, ascending
set_gaps(rs, outer) ==
    LET inside == SelectSeq(rs, LAMBDA x : overlaps(x, outer))
        n == Len(inside)
        before(i) == IF i = 1 THEN outer.start ELSE inside[i - 1].end + 1
        after(i)  == IF i = n + 1 THEN outer.end ELSE inside[i].start - 1
    IN flatten([i \in 1..(n + 1) |->
            IF before(i) <= after(i) THEN <<Interval(before(i), after(i))>> ELSE <<>>])

\* the loop `for interval in intervals { store.insert_merge_touching_or_overlapping(interval) }`
RECURSIVE set_insert_all(_, _)
set_insert_all(rs, ks) ==
    IF Len(ks) = 0 THEN rs
    ELSE set_insert_all(set_insert_merge_touching_or_overlapping(rs, Head(ks)), Tail(ks))

\* ---------------------------------------------- NaiveGapQueryIntervalTree
\* inner: BTreeMap<D, DiscreteRangeSet>: per identifier None when the key is
\* absent, Some(range-set) when it is present (the range-set may be empty).
\* NaiveGapQueryIntervalTree::new(): the empty BTreeMap
naive_new == [d \in Identifiers |-> None]

\* the keys of the BTreeMap in iteration (ascending) order
naive_keys(naive) ==
    LET present == {d \in Identifiers : naive[d] # None}
    IN [i \in 1..Cardinality(present) |->
            CHOOSE d \in present : Cardinality({e \in present : e < d}) = i - 1]

\* PartialEq: self.inner == other.inner, the BTreeMaps hold the same keys with
\* equal range-sets
naive_eq(x, y) == \A d \in Identifiers : x[d] = y[d]

\* entry(identifier).or_default(): the stored range-set, a new empty one when
\* the key is absent
or_default(naive, d) == IF naive[d] = None THEN <<>> ELSE naive[d][1]

\* NaiveGapQueryIntervalTree::insert(identifiers, interval)
naive_insert(naive, identifiers, interval) ==
    [d \in Identifiers |->
        IF d \in identifiers
        THEN Some(set_insert_merge_touching_or_overlapping(or_default(naive, d), interval))
        ELSE naive[d]]

\* NaiveGapQueryIntervalTree::cut with a slip: a stored interval that overlaps
\* the cut is removed whole, its out-of-range halves are lost
naive_cut_dropping_halves(naive, with_identifiers, interval) ==
    [d \in Identifiers |->
        IF naive[d] # None /\ (with_identifiers = None \/ d \in with_identifiers[1])
        THEN Some(SelectSeq(naive[d][1], LAMBDA x : ~overlaps(x, interval)))
        ELSE naive[d]]

\* NaiveGapQueryIntervalTree::cut(with_identifiers, interval)
naive_cut(naive, with_identifiers, interval) ==
    [d \in Identifiers |->
        IF naive[d] # None /\ (with_identifiers = None \/ d \in with_identifiers[1])
        THEN Some(set_cut(naive[d][1], interval))
        ELSE naive[d]]

\* NaiveGapQueryIntervalTree::append(other): extract_if(|_, _| true) drains
\* other; the non-empty range-sets are inserted into self
naive_append(self, other) ==
    [self  |-> [d \in Identifiers |->
                    IF other[d] # None /\ Len(other[d][1]) > 0
                    THEN Some(set_insert_all(or_default(self, d), other[d][1]))
                    ELSE self[d]],
     other |-> naive_new]

\* NaiveGapQueryIntervalTree::identifiers_at_point(at_point)
naive_identifiers_at_point(naive, at_point) ==
    {d \in Identifiers : naive[d] # None /\ set_contains_point(naive[d][1], at_point)}

\* NaiveGapQueryIntervalTree::get_gaps(with_identifier): the gaps of the union
\* of the range-sets of the identifiers other than with_identifier
naive_get_gaps(naive, with_identifier) ==
    LET ks == naive_keys(naive)
        others == flatten([i \in 1..Len(ks) |->
                    IF with_identifier # None /\ with_identifier[1] = ks[i]
                    THEN <<>> ELSE naive[ks[i]][1]])
        total_intervals == set_insert_all(<<>>, others)
    IN set_gaps(total_intervals, FullInterval)

\* gaps.overlapping(interval).copied().collect()
set_overlapping(rs, interval) == SelectSeq(rs, LAMBDA x : overlaps(x, interval))

\* NaiveGapQueryIntervalTree::gap_query(with_identifier, interval)
naive_gap_query(naive, with_identifier, interval) ==
    set_overlapping(naive_get_gaps(naive, with_identifier), interval)

\* the loop of into_naive for one identifier:
\* entry(identifier).or_default().insert_merge_touching(interval).unwrap()
RECURSIVE set_insert_all_touching(_, _)
set_insert_all_touching(rs, ks) ==
    IF Len(ks) = 0
    THEN [err |-> FALSE, set |-> rs]
    ELSE LET r == set_insert_merge_touching(rs, Head(ks))
         IN IF r.err THEN r ELSE set_insert_all_touching(r.set, Tail(ks))

\* NoGapsRefGapQueryIntervalTree::into_naive(): every segment's interval is
\* inserted into the range-set of each of its identifiers; err records that
\* an unwrap() met Err.
into_naive(inner) ==
    LET of == [d \in Identifiers |-> keys(SelectSeq(inner, LAMBDA x : d \in x.ids))]
        stored == [d \in Identifiers |-> set_insert_all_touching(<<>>, of[d])]
    IN [err   |-> \E d \in Identifiers : stored[d].err,
        naive |-> [d \in Identifiers |->
                    IF Len(of[d]) = 0 THEN None ELSE Some(stored[d].set)]]

\* ----------------------------------------------------------- state machine
\* (the result of a call is bound by a quantifier over a one-element set, so
\* that it is computed once per step)
VARIABLES
    maps,       \* maps[t]: the inner DiscreteRangeMap of tree t
    wasOther,   \* the trees that have been the `other` argument of an append
    last,       \* the last mutating call: its name and its receiver
    ops,        \* number of mutating calls made
    panicked,   \* an unwrap() inside a call met Err: the program aborted
    naive,      \* naive[t]: the inner BTreeMap of the NaiveMap of harness t
    assert_eq_failed    \* an assert_eq!() of the harness did not hold

vars == <<maps, wasOther, last, ops, panicked, naive, assert_eq_failed>>

\* NoGapsRefGapQueryIntervalTree::new() for both trees
Init ==
    /\ maps = [t \in Trees |-> default]
    /\ wasOther = {}
    /\ last = [op |-> "new", tree |-> "a"]
    /\ ops = 0
    /\ panicked = FALSE
    /\ naive = [t \in Trees |-> naive_new]
    /\ assert_eq_failed = FALSE

\* a further mutating call can be made
CanCall == ops < MaxOps /\ ~panicked

\* t.insert(ids, k)
DoInsert(t, ids, k) ==
    /\ CanCall
    /\ \E r \in {insert(maps[t], ids, k)} :
          /\ maps' = [maps EXCEPT ![t] = r.inner]
          /\ panicked' = r.err
    /\ last' = [op |-> "insert", tree |-> t]
    /\ ops' = ops + 1
    /\ UNCHANGED <<wasOther, naive, assert_eq_failed>>

\* t.cut(ids, k), the cut(Some(ids), k) of the Option generation
DoCut(t, ids, k) ==
    /\ CanCall
    /\ \E r \in {cut(maps[t], ids, k)} :
          /\ maps' = [maps EXCEPT ![t] = r.inner]
          /\ panicked' = r.err
    /\ last' = [op |-> "cut", tree |-> t]
    /\ ops' = ops + 1
    /\ UNCHANGED <<wasOther, naive, assert_eq_failed>>

\* t.cut(None, k)
DoCutNone(t, k) ==
    /\ CanCall
    /\ \E r \in {cut_none(maps[t], k)} :
          /\ maps' = [maps EXCEPT ![t] = r.inner]
          /\ panicked' = r.err
    /\ last' = [op |-> "cut_none", tree |-> t]
    /\ ops' = ops + 1
    /\ UNCHANGED <<wasOther, naive, assert_eq_failed>>

\* t.append(&mut other)
DoAppend(t) ==
    /\ CanCall
    /\ \E r \in {append(maps[t], maps[Other(t)])} :
          /\ maps' = [maps EXCEPT ![t] = r.self, ![Other(t)] = r.other]
          /\ panicked' = r.err
    /\ wasOther' = wasOther \cup {Other(t)}
    /\ last' = [op |-> "append", tree |-> t]
    /\ ops' = ops + 1
    /\ UNCHANGED <<naive, assert_eq_failed>>

Next ==
    \/ \E t \in Trees, ids \in IdentifierSets, k \in Intervals : DoInsert(t, ids, k)
    \/ \E t \in Trees, ids \in IdentifierSets, k \in Intervals : DoCut(t, ids, k)
    \/ \E t \in Trees, k \in Intervals : DoCutNone(t, k)
    \/ \E t \in Trees : DoAppend(t)

Spec == Init /\ [][Next]_vars

\* ---- the calls that keep tree "a" a receiver: every call on "a", with "b"
\* as the argument of its appends, and the inserts and cuts on "b" that give
\* the argument its segments
ReceiverNext ==
    \/ \E t \in Trees, ids \in IdentifierSets, k \in Intervals : DoInsert(t, ids, k)
    \/ \E t \in Trees, ids \in IdentifierSets, k \in Intervals : DoCut(t, ids, k)
    \/ \E t \in Trees, k \in Intervals : DoCutNone(t, k)
    \/ DoAppend("a")

ReceiverSpec == Init /\ [][ReceiverNext]_vars

\* ---- EqualityTestGapQueryIntervalTree: maps[t] and naive[t] driven together
\* EqualityTestGapQueryIntervalTree::assert_eq(): the NaiveMap equals the
\* projection of the SegmentedMap (into_naive's unwrap() can panic first)
assert_eq(naive_map, inner) ==
    LET projected == into_naive(inner)
    IN [err |-> projected.err,
        failed |-> ~projected.err /\ ~naive_eq(naive_map, projected.naive)]

\* a further call can be made on a harness: no earlier call has panicked
HarnessCanCall == CanCall /\ ~assert_eq_failed

\* EqualityTestGapQueryIntervalTree::insert(identifiers, interval)
HarnessInsert(t, ids, k) ==
    /\ HarnessCanCall
    /\ \E n \in {naive_insert(naive[t], ids, k)}, r \in {insert(maps[t], ids, k)} :
       \E a \in {assert_eq(n, r.inner)} :
          /\ naive' = [naive EXCEPT ![t] = n]
          /\ maps' = [maps EXCEPT ![t] = r.inner]
          /\ panicked' = (r.err \/ a.err)
          /\ assert_eq_failed' = (~r.err /\ a.failed)
    /\ last' = [op |-> "insert", tree |-> t]
    /\ ops' = ops + 1
    /\ UNCHANGED wasOther

\* EqualityTestGapQueryIntervalTree::cut(with_identifiers, interval)
HarnessCut(t, with_identifiers, k) ==
    /\ HarnessCanCall
    /\ \E n \in {naive_cut(naive[t], with_identifiers, k)},
          r \in {cut_option(maps[t], with_identifiers, k)} :
       \E a \in {assert_eq(n, r.inner)} :
          /\ naive' = [naive EXCEPT ![t] = n]
          /\ maps' = [maps EXCEPT ![t] = r.inner]
          /\ panicked' = (r.err \/ a.err)
          /\ assert_eq_failed' = (~r.err /\ a.failed)
    /\ last' = [op |-> IF with_identifiers = None THEN "cut_none" ELSE "cut", tree |-> t]
    /\ ops' = ops + 1
    /\ UNCHANGED wasOther

\* EqualityTestGapQueryIntervalTree::append(other)
HarnessAppend(t) ==
    /\ HarnessCanCall
    /\ \E n \in {naive_append(naive[t], naive[Other(t)])},
          r \in {append(maps[t], maps[Other(t)])} :
       \E a \in {assert_eq(n.self, r.self)} :
          /\ naive' = [naive EXCEPT ![t] = n.self, ![Other(t)] = n.other]
          /\ maps' = [maps EXCEPT ![t] = r.self, ![Other(t)] = r.other]
          /\ panicked' = (r.err \/ a.err)
          /\ assert_eq_failed' = (~r.err /\ a.failed)
    /\ wasOther' = wasOther \cup {Other(t)}
    /\ last' = [op |-> "append", tree |-> t]
    /\ ops' = ops + 1

HarnessNext ==
    \/ \E t \in Trees, ids \in IdentifierSets, k \in Intervals : HarnessInsert(t, ids, k)
    \/ \E t \in Trees, k \in Intervals :
            \E with_identifiers \in OptionalIdentifierSets :
                HarnessCut(t, with_identifiers, k)
    \/ \E t \in Trees : HarnessAppend(t)

HarnessSpec == Init /\ [][HarnessNext]_vars

\* ------------------------------------------------------------ properties
\* the trees that have only ever been the receiver of calls
ReceiverOnly == Trees \ wasOther

\* the initial segment store: one segment [MIN, MAX] with no identifier
InitialStore == <<Entry(FullInterval, {})>>

\* the keys of a store, in order, partition [MIN, MAX]
IsPartition(inner) ==
    /\ Len(inner) >= 1
    /\ inner[1].k.start = MIN
    /\ inner[Len(inner)].k.end = MAX
    /\ \A i \in 1..Len(inner) : inner[i].k.start <= inner[i].k.end
    /\ \A i \in 1..(Len(inner) - 1) : inner[i + 1].k.start = inner[i].k.end + 1

\* C1: the segment keys of a tree that has only been the receiver of insert,
\* cut and append calls partition [MIN, MAX]: the first starts at MIN, the
\* last ends at MAX, each starts right after the previous one ends.
C1_TotalCoverage == \A t \in ReceiverOnly : IsPartition(maps[t])

\* a cut has split a receiver-only tree into three segments
C1_Witness ==
    \E t \in ReceiverOnly :
        /\ last = [op |-> "cut", tree |-> t]
        /\ Len(maps[t]) = 3
        /\ maps[t][2].ids # maps[t][1].ids

\* C2: no two adjacent segments of a receiver-only tree carry equal
\* identifier sets.
C2_MaximalCoalescing ==
    \A t \in ReceiverOnly :
        \A i \in 1..(Len(maps[t]) - 1) : maps[t][i].ids # maps[t][i + 1].ids

\* an insert left a piece between two neighbours that carry the same,
\* non-empty set, different from the piece's
C2_Witness ==
    \E t \in ReceiverOnly :
        /\ last = [op |-> "insert", tree |-> t]
        /\ Len(maps[t]) = 3
        /\ maps[t][1].ids = maps[t][3].ids
        /\ maps[t][1].ids # {}
        /\ maps[t][2].ids # {}

\* C3: before any call both trees consist of the one segment [MIN, MAX] with
\* the empty set; on such a tree every global gap query returns [[MIN, MAX]],
\* every global point query Some([MIN, MAX]) and every point lookup the empty
\* set.
C3_InitialState ==
    \A t \in Trees :
        /\ ops = 0 => maps[t] = InitialStore
        /\ maps[t] = InitialStore =>
            /\ \A q \in Intervals : gap_query(maps[t], None, q) = <<FullInterval>>
            /\ \A p \in Points :
                /\ gap_query_at_point(maps[t], None, p)
                     = [assert_failed |-> FALSE, result |-> Some(FullInterval)]
                /\ identifiers_at_point(maps[t], p) = {}

\* the freshly constructed trees
C3_Witness == ops = 0 /\ last.op = "new" /\ \A t \in Trees : Len(maps[t]) = 1

\* C4: when append returns, its argument consists of the one segment
\* [MIN, MAX] with the empty set.
C4_OtherLeftInitial ==
    last.op = "append" => maps[Other(last.tree)] = InitialStore

\* what the code leaves instead: an empty segment store
C4_OtherLeftEmpty ==
    last.op = "append" => maps[Other(last.tree)] = <<>>

\* ---- effects of the mutating calls, point by point
\* the identifier set every point has in a store
Occupancy(inner) == [p \in Points |-> identifiers_at_point(inner, p)]

\* insert(ids, k) on a store of occupancy occ: inside k each point gains ids,
\* outside k nothing changes
InsertEffect(inner, occ, ids, k) ==
    Occupancy(insert(inner, ids, k).inner) =
        [p \in Points |-> IF contains(k, p) THEN occ[p] \cup ids ELSE occ[p]]

\* C5: on every reachable tree, for every identifier set and interval,
\* insert adds the identifiers to every point of the interval and changes no
\* point outside it.
C5_InsertEffectFrame ==
    \A t \in Trees :
        LET occ == Occupancy(maps[t])
        IN \A ids \in IdentifierSets, k \in Intervals :
            InsertEffect(maps[t], occ, ids, k)

\* the same on the trees that have only been receivers
InsertEffectOnReceiverOnly ==
    \A t \in ReceiverOnly :
        LET occ == Occupancy(maps[t])
        IN \A ids \in IdentifierSets, k \in Intervals :
            InsertEffect(maps[t], occ, ids, k)

\* cut(Some(S), k) on a store of occupancy occ: inside k each point loses S,
\* outside k nothing changes
CutEffect(inner, occ, S, k) ==
    Occupancy(cut(inner, S, k).inner) =
        [p \in Points |-> IF contains(k, p) THEN occ[p] \ S ELSE occ[p]]

\* C6: every cut(Some(S), k) that can be called, on either tree, removes S
\* from every point of k, keeps the other identifiers there, and changes no
\* point outside k.
C6_CutEffectFrame ==
    CanCall => \A t \in Trees :
        LET occ == Occupancy(maps[t])
        IN \A S \in IdentifierSets, k \in Intervals :
            CutEffect(maps[t], occ, S, k)

\* a cut took one identifier out of the middle of a segment held by two
C6_Witness ==
    /\ last.op = "cut"
    /\ LET m == maps[last.tree]
       IN /\ Len(m) = 3
          /\ m[1].ids = Identifiers
          /\ Cardinality(m[2].ids) = 1
          /\ m[3].ids = Identifiers

\* cut(None, k) on a store of occupancy occ: inside k each point is freed,
\* outside k nothing changes
CutNoneEffect(inner, occ, k) ==
    Occupancy(cut_none(inner, k).inner) =
        [p \in Points |-> IF contains(k, p) THEN {} ELSE occ[p]]

\* C7: every cut(None, k) that can be called, on either tree, leaves every
\* point of k with the empty set and changes no point outside k.
C7_CutNoneFrees ==
    CanCall => \A t \in Trees :
        LET occ == Occupancy(maps[t])
        IN \A k \in Intervals : CutNoneEffect(maps[t], occ, k)

\* a cut with no identifiers freed the middle of a segment held by two
C7_Witness ==
    /\ last.op = "cut_none"
    /\ LET m == maps[last.tree]
       IN /\ Len(m) = 3
          /\ m[1].ids = Identifiers
          /\ m[2].ids = {}
          /\ m[3].ids = Identifiers

\* self.append(other): afterwards every point of self holds the union of
\* what self and other held there
AppendUnion(self, other) ==
    Occupancy(append(self, other).self) =
        [p \in Points |->
            identifiers_at_point(self, p) \cup identifiers_at_point(other, p)]

\* C8: for every two reachable trees A and B, A.append(B) leaves A with the
\* pointwise union of both, so the receiver of A.append(B) and the receiver of
\* B.append(A) end with the same occupancy.
C8_AppendUnion ==
    \A t \in Trees :
        /\ AppendUnion(maps[t], maps[Other(t)])
        /\ Occupancy(append(maps[t], maps[Other(t)]).self)
             = Occupancy(append(maps[Other(t)], maps[t]).self)

\* the same when neither tree has been drained by an earlier append
AppendUnionOnReceiverOnly ==
    ReceiverOnly = Trees =>
        \A t \in Trees : AppendUnion(maps[t], maps[Other(t)])

\* ---- gap queries against the maximal free runs, point by point
\* a point of identifier set ids is free from the vantage of with_identifier
IsFree(with_identifier, ids) ==
    IF with_identifier = None
    THEN ids = {}
    ELSE ids \subseteq {with_identifier[1]}

\* the maximal runs of consecutive free points of an occupancy
MaximalFreeRuns(occ, with_identifier) ==
    {k \in Intervals :
        /\ \A p \in k.start..k.end : IsFree(with_identifier, occ[p])
        /\ (k.start = MIN \/ ~IsFree(with_identifier, occ[k.start - 1]))
        /\ (k.end = MAX \/ ~IsFree(with_identifier, occ[k.end + 1]))}

\* a set of pairwise disjoint intervals in ascending order
Ascending(S) ==
    [i \in 1..Cardinality(S) |->
        CHOOSE k \in S : Cardinality({j \in S : j.start < k.start}) = i - 1]

\* every gap query from one vantage on a store returns, ascending, exactly
\* the maximal free runs that share a point with the window
GapsAreMaximalRuns(inner, with_identifier) ==
    LET runs == MaximalFreeRuns(Occupancy(inner), with_identifier)
    IN \A q \in Intervals :
        gap_query(inner, with_identifier, q)
            = Ascending({k \in runs : overlaps(k, q)})

\* C9: on every reachable tree, gap_query(Some(d), q) returns, ascending,
\* exactly the maximal runs of points held by nobody or by d alone that share
\* a point with q.
C9_IdentifierGapsMaximal ==
    \A t \in Trees, d \in Identifiers : GapsAreMaximalRuns(maps[t], Some(d))

\* the same on the trees that have only been receivers
IdentifierGapsOnReceiverOnly ==
    \A t \in ReceiverOnly, d \in Identifiers : GapsAreMaximalRuns(maps[t], Some(d))

\* C10: on a receiver-only tree, gap_query(None, q) returns, ascending, the
\* segments with the empty set that overlap q, each with its stored extent,
\* and these are exactly the maximal runs of points held by nobody.
C10_GlobalGapsMaximal ==
    \A t \in ReceiverOnly :
        /\ GapsAreMaximalRuns(maps[t], None)
        /\ \A q \in Intervals :
            LET found == gap_query(maps[t], None, q)
            IN /\ \A i \in 1..Len(found) :
                    \E j \in 1..Len(maps[t]) :
                        maps[t][j].k = found[i] /\ maps[t][j].ids = {}
               /\ \A i \in 1..(Len(found) - 1) :
                    found[i].end + 1 < found[i + 1].start

\* a receiver-only tree with two free segments around an occupied one: a
\* window inside the first free segment gets the whole segment, a window over
\* everything gets both
C10_Witness ==
    \E t \in ReceiverOnly :
        /\ Len(maps[t]) = 3
        /\ maps[t][1].ids = {} /\ maps[t][2].ids # {} /\ maps[t][3].ids = {}
        /\ Len(gap_query(maps[t], None, FullInterval)) = 2
        /\ gap_query(maps[t], None, Interval(MIN, MIN)) = <<maps[t][1].k>>

\* ---- point queries
\* the trees whose store the last call wrote (both trees before any call, the
\* receiver and the drained argument after an append): every store a tree
\* ever holds is the store of a written tree in the state the call left
Written == IF last.op \in {"new", "append"} THEN Trees ELSE {last.tree}

\* the vantages of a gap query: no identifier, or one identifier
Vantages == {None} \cup {Some(d) : d \in Identifiers}

\* C11: on every tree as a call leaves it, for every vantage and point p,
\* gap_query(opt_d, [p, p]) has at most one element, the assertion of
\* gap_query_at_point holds, gap_query_at_point returns that element as Some
\* (None when there is none), and a returned gap contains p.
C11_AtPointAgreement ==
    \A t \in Written, w \in Vantages, p \in Points :
        LET found == gap_query(maps[t], w, Interval(p, p))
            r == gap_query_at_point(maps[t], w, p)
        IN /\ Len(found) <= 1
           /\ ~r.assert_failed
           /\ r.result = (IF Len(found) = 0 THEN None ELSE Some(found[1]))
           /\ \A i \in 1..Len(found) : contains(found[i], p)

\* from the vantage of one identifier a point query returns a gap made of
\* two segments, strictly larger than the point, and None at another point
C11_Witness ==
    \E t \in Written, d \in Identifiers, p, q \in Points :
        LET r == gap_query_at_point(maps[t], Some(d), p)
        IN /\ r.result # None
           /\ r.result[1].start < r.result[1].end
           /\ \A i \in 1..Len(maps[t]) : maps[t][i].k # r.result[1]
           /\ gap_query_at_point(maps[t], Some(d), q).result = None

\* ---- the harness: the SegmentedMap against the NaiveMap
\* two NaiveMaps hold the same range-set for every identifier, an absent
\* identifier counting as one with an empty range-set
SameRanges(x, y) == \A d \in Identifiers : or_default(x, d) = or_default(y, d)

\* C12: the assert_eq!() after every insert, cut and append of the harness
\* holds: the NaiveMap compares equal to the projection (into_naive) of the
\* SegmentedMap of the harness the call was made on.
C12_ProjectionAssertionHolds ==
    /\ ~assert_eq_failed
    /\ ops > 0 =>
        naive_eq(naive[last.tree], into_naive(maps[last.tree]).naive)

\* what holds instead on the harnesses that have only been receivers: the
\* projection and the NaiveMap hold the same range-sets, and differ at most
\* in identifiers the NaiveMap holds with an empty range-set
ProjectionSameRangesOnReceiverOnly ==
    \A t \in ReceiverOnly : SameRanges(naive[t], into_naive(maps[t]).naive)

\* C13: on every harness that has only been the receiver of insert, cut and
\* append calls, for every vantage and query interval the NaiveMap and the
\* SegmentedMap return the same list of gaps (same intervals, same order).
C13_GapQueryAgreement ==
    \A t \in ReceiverOnly, w \in Vantages :
        LET gaps == naive_get_gaps(naive[t], w)
        IN \A q \in Intervals :
            /\ set_overlapping(gaps, q) = gap_query(maps[t], w, q)
            /\ q = FullInterval => naive_gap_query(naive[t], w, q) = gap_query(maps[t], w, q)

\* a receiver-only harness where one identifier sees a gap that runs over
\* its own interval and is therefore larger than any global gap, and both
\* maps return it for a window at the far end of the gap
C13_Witness ==
    \E t \in ReceiverOnly, d \in Identifiers :
        /\ ~assert_eq_failed
        /\ Len(or_default(naive[t], d)) > 0
        /\ \E e \in Identifiers : e # d /\ Len(or_default(naive[t], e)) > 0
        /\ LET own == or_default(naive[t], d)[1]
               found == naive_gap_query(naive[t], Some(d), Interval(own.start, own.start))
           IN /\ found = gap_query(maps[t], Some(d), Interval(own.start, own.start))
              /\ Len(found) = 1
              /\ found[1].end > own.end
              /\ gap_query(maps[t], None, Interval(own.start, own.start)) = <<>>

\* C14: on every harness that has only been the receiver of insert, cut and
\* append calls, for every point p the set of the segment containing p equals
\* the set of the identifiers whose range-set in the NaiveMap contains p.
C14_PointLookupAgreement ==
    \A t \in ReceiverOnly, p \in Points :
        identifiers_at_point(maps[t], p) = naive_identifiers_at_point(naive[t], p)

\* a receiver-only harness, after a cut, with a point held by two
\* identifiers, a point held by one and a point held by none
C14_Witness ==
    \E t \in ReceiverOnly, p1, p2, p3 \in Points :
        /\ last = [op |-> "cut", tree |-> t]
        /\ ~assert_eq_failed
        /\ naive_identifiers_at_point(naive[t], p1) = Identifiers
        /\ Cardinality(naive_identifiers_at_point(naive[t], p2)) = 1
        /\ naive_identifiers_at_point(naive[t], p3) = {}
        /\ identifiers_at_point(maps[t], p1) = Identifiers

\* ---- algebraic laws of the mutating calls
\* C15: on every tree as a call leaves it, for every cut(S, I) that can be called
\* (S an optional identifier set), a second cut(S, I) changes nothing: the
\* store after cut(S, I); cut(S, I) is the store after one cut(S, I), segment
\* by segment.
C15_CutIdempotent ==
    CanCall => \A t \in Written, S \in OptionalIdentifierSets, k \in Intervals :
        \A once \in {cut_option(maps[t], S, k)} :
            cut_option(once.inner, S, k) = [err |-> FALSE, inner |-> once.inner]

\* after an insert, a cut that can be called splits a segment held by two
\* identifiers in three, taking one identifier out of the middle; cutting it
\* out again leaves the three segments as they are
C15_Witness ==
    /\ CanCall
    /\ last.op = "insert"
    /\ \E t \in Written, d \in Identifiers, k \in Intervals :
        LET once == cut(maps[t], {d}, k).inner
        IN /\ Len(maps[t]) = 1
           /\ maps[t][1].ids = Identifiers
           /\ Len(once) = 3
           /\ once[2].ids = Identifiers \ {d}
           /\ cut(once, {d}, k).inner = once

\* the projection of a store: per identifier the coalesced range-set of the
\* segments that hold it
Projection(inner) == into_naive(inner).naive

\* the store after insert(ids, k) followed by cut(Some(ids), k)
InsertThenCut(inner, ids, k) == cut(insert(inner, ids, k).inner, ids, k).inner

\* no identifier of ids is held by a segment that overlaps k
Unoccupied(inner, ids, k) ==
    \A i \in 1..Len(inner) : overlaps(inner[i].k, k) => inner[i].ids \cap ids = {}

\* C16, as claimed: on every reachable tree, for every identifier set and
\* interval, insert(ids, I) followed by cut(Some(ids), I) gives a store whose
\* projection is the projection of the store before the insert.
C16_InsertCutRoundTrip ==
    \A t \in Trees, ids \in IdentifierSets, k \in Intervals :
        Projection(InsertThenCut(maps[t], ids, k)) = Projection(maps[t])

\* C16, amended: on every tree as a call leaves it, for every insert(ids, I)
\* that can be called, insert(ids, I)
\* followed by cut(Some(ids), I) gives the projection of the store before the
\* insert with ids cut from I; it is the projection of the store before the
\* insert when no identifier of ids held a point of I.
C16_InsertCutRoundTripAmended ==
    CanCall => \A t \in Written :
        \A before \in {Projection(maps[t])} :
            \A ids \in IdentifierSets, k \in Intervals :
                \A after \in {Projection(InsertThenCut(maps[t], ids, k))} :
                    /\ after = Projection(cut(maps[t], ids, k).inner)
                    /\ Unoccupied(maps[t], ids, k) => after = before

\* an insert can be called that adds an identifier over the border of a
\* segment held by the other identifier, none of its points held by the
\* identifier before: the cut takes exactly the insert back
C16_Witness ==
    /\ CanCall
    /\ \E t \in Written, d \in Identifiers, k \in Intervals :
        /\ Len(maps[t]) = 2
        /\ overlaps(maps[t][1].k, k) /\ overlaps(maps[t][2].k, k)
        /\ \E i \in 1..2 : maps[t][i].ids = Identifiers \ {d}
        /\ Unoccupied(maps[t], {d}, k)
        /\ Projection(insert(maps[t], {d}, k).inner) # Projection(maps[t])
        /\ InsertThenCut(maps[t], {d}, k) = maps[t]

\* ---- the extent of the gaps a query returns
\* interval x lies inside interval q
Within(x, q) == q.start <= x.start /\ x.end <= q.end

\* C17, as claimed: on every reachable tree, for every vantage and window Q,
\* every interval gap_query returns lies inside Q and overlaps Q.
C17_GapsClippedToWindow ==
    \A t \in Trees, w \in Vantages, q \in Intervals :
        \A found \in {gap_query(maps[t], w, q)} :
            \A i \in 1..Len(found) : Within(found[i], q) /\ overlaps(found[i], q)

\* C17, amended: on every tree as a call leaves it, for every vantage and window Q,
\* every interval gap_query returns overlaps Q (it is returned with its whole
\* extent, which may begin before Q and end after Q).
C17_GapsOverlapWindow ==
    \A t \in Written, w \in Vantages, q \in Intervals :
        \A found \in {gap_query(maps[t], w, q)} :
            \A i \in 1..Len(found) : overlaps(found[i], q)

\* a tree with a free segment and an occupied one: for a window over the
\* border of the two, both kinds of query return a gap that overlaps the
\* window and reaches beyond it
C17_Witness ==
    \E t \in Written, d \in Identifiers, q \in Intervals :
        /\ Len(maps[t]) >= 2
        /\ \E i \in 1..Len(maps[t]) : maps[t][i].ids = {}
        /\ \E i \in 1..Len(maps[t]) : d \in maps[t][i].ids
        /\ \A w \in Vantages :
            LET found == gap_query(maps[t], w, q)
            IN /\ Len(found) >= 1
               /\ \A i \in 1..Len(found) : overlaps(found[i], q)
               /\ \E i \in 1..Len(found) : ~Within(found[i], q)

\* ---- inserts of nothing, and the re-insertion of the cut pieces
\* C18: on a receiver-only tree as a call leaves it, insert(empty set, I) returns normally and
\* leaves the store as it was, segment by segment, for every interval I.
C18_InsertEmptyIsNoOp ==
    \A t \in ReceiverOnly \cap Written, k \in Intervals :
        insert(maps[t], {}, k) = [err |-> FALSE, inner |-> maps[t]]

\* a receiver-only tree of three segments after an append: inserting the
\* empty set over all of them cuts three pieces out and puts them back
C18_Witness ==
    \E t \in ReceiverOnly :
        /\ last = [op |-> "append", tree |-> t]
        /\ Len(maps[t]) = 3
        /\ Len(inner_cut(maps[t], FullInterval).pieces) = 3
        /\ inner_cut(maps[t], FullInterval).inner = <<>>
        /\ insert(maps[t], {}, FullInterval).inner = maps[t]

\* C19: no insert, cut or append has panicked: every re-insertion of a cut
\* piece found the piece disjoint from what the map stored.
C19_ReinsertionNeverFails == ~panicked

\* an insert can be called whose three cut pieces all get the same set: the
\* second and third are re-inserted next to a piece merged just before, and
\* the call returns normally with one segment
C19_Witness ==
    /\ CanCall
    /\ ~panicked
    /\ \E t \in Trees :
        /\ Len(maps[t]) = 3
        /\ Len(inner_cut(maps[t], FullInterval).pieces) = 3
        /\ insert(maps[t], Identifiers, FullInterval)
            = [err |-> FALSE, inner |-> <<Entry(FullInterval, Identifiers)>>]

\* ---- equality of NaiveMaps
\* C20: a NaiveMap that holds an identifier with an empty range-set compares
\* equal (PartialEq) to the same map without that identifier; a NaiveMap all
\* of whose range-sets are empty, as after insert(ids, I); cut(Some(ids), I)
\* on a new map, compares equal to a new NaiveMap.
C20_AbsentEqualsEmpty ==
    \A t \in Trees :
        /\ \A d \in Identifiers :
            naive[t][d] = Some(<<>>) =>
                naive_eq(naive[t], [naive[t] EXCEPT ![d] = None])
        /\ SameRanges(naive[t], naive_new) => naive_eq(naive[t], naive_new)

\* what the code does instead: cut keeps the key of a range-set it empties,
\* and PartialEq tells such a map from a new one
EmptiedKeyStaysAndDiffers ==
    \A t \in Trees :
        last = [op |-> "cut", tree |-> t] /\ ops = 1 =>
            /\ naive[t] = naive_new
            /\ \A S \in IdentifierSets, k \in Intervals :
                S # {} =>
                    ~naive_eq(naive_cut(naive_insert(naive[t], S, k), Some(S), k), naive_new)

\* ---- the argument of an append, used again
\* every call of each kind gives on store x the result (and the store) it
\* gives on store y
SameResults(x, y) ==
    /\ \A ids \in IdentifierSets, k \in Intervals : insert(x, ids, k) = insert(y, ids, k)
    /\ \A S \in OptionalIdentifierSets, k \in Intervals :
            cut_option(x, S, k) = cut_option(y, S, k)
    /\ \A w \in Vantages, q \in Intervals : gap_query(x, w, q) = gap_query(y, w, q)
    /\ \A p \in Points : identifiers_at_point(x, p) = identifiers_at_point(y, p)

\* C21: when append returns, every insert, cut, gap_query and
\* identifiers_at_point call on its argument gives the result and the store
\* the same call gives on a new tree; insert(ids, I) on the argument makes
\* identifiers_at_point return ids at every point of I; and no call on a
\* harness that has been the argument of an append fails the assert_eq!().
C21_DrainedReusableLikeFresh ==
    /\ last.op = "append" =>
        \A b \in {maps[Other(last.tree)]} :
            /\ SameResults(b, default)
            /\ \A ids \in IdentifierSets, k \in Intervals :
                \A p \in k.start..k.end :
                    identifiers_at_point(insert(b, ids, k).inner, p) = ids
    /\ (last.tree \in wasOther /\ last.op # "append") => ~assert_eq_failed

\* what the code does instead: the argument of an append is left without any
\* segment, every insert and cut on it stores nothing, every query on it
\* finds nothing, and the harness fails the assert_eq!() of every insert of
\* a non-empty identifier set on it
DrainedStoresNothing ==
    /\ last.op = "append" =>
        \A b \in {maps[Other(last.tree)]} :
            /\ \A ids \in IdentifierSets, k \in Intervals :
                insert(b, ids, k) = [err |-> FALSE, inner |-> <<>>]
            /\ \A S \in OptionalIdentifierSets, k \in Intervals :
                cut_option(b, S, k) = [err |-> FALSE, inner |-> <<>>]
            /\ \A w \in Vantages, q \in Intervals : gap_query(b, w, q) = <<>>
            /\ \A ids \in IdentifierSets, k \in Intervals :
                ids # {} =>
                    assert_eq(naive_insert(naive[Other(last.tree)], ids, k),
                              insert(b, ids, k).inner).failed

\* ---- the representation of an occupancy
\* the maximal runs of consecutive points that hold the same identifier set
MaximalEqualRuns(occ) ==
    {k \in Intervals :
        /\ \A p \in k.start..k.end : occ[p] = occ[k.start]
        /\ (k.start = MIN \/ occ[k.start - 1] # occ[k.start])
        /\ (k.end = MAX \/ occ[k.end + 1] # occ[k.end])}

\* the store an occupancy determines: one segment per maximal run, ascending
Canonical(occ) ==
    LET runs == Ascending(MaximalEqualRuns(occ))
    IN [i \in 1..Len(runs) |-> Entry(runs[i], occ[runs[i].start])]

\* C22: the store of a receiver-only tree is the one its occupancy
\* determines (one segment per maximal run of points with the same set), and
\* two receiver-only trees that hold the same set at every point of
\* [MIN, MAX] compare equal under PartialEq, whatever calls made them.
C22_CanonicalRepresentation ==
    /\ \A t \in ReceiverOnly \cap Written :
        eq(maps[t], Canonical(Occupancy(maps[t])))
    /\ \A t \in ReceiverOnly, u \in ReceiverOnly :
        Occupancy(maps[t]) = Occupancy(maps[u]) => eq(maps[t], maps[u])

\* a receiver-only tree made by insert({d}, [MIN, MIN]) on which
\* insert({d}, [MIN + 1, MIN + 1]) can be called: the two small inserts
\* give the two segments that the one insert({d}, [MIN, MIN + 1]) gives on a
\* new tree
C22_Witness ==
    /\ CanCall
    /\ last.op = "insert"
    /\ \E t \in ReceiverOnly, d \in Identifiers :
        /\ maps[t] = <<Entry(Interval(MIN, MIN), {d}), Entry(Interval(MIN + 1, MAX), {})>>
        /\ \E two \in {insert(maps[t], {d}, Interval(MIN + 1, MIN + 1)).inner},
              one \in {insert(default, {d}, Interval(MIN, MIN + 1)).inner} :
            /\ Occupancy(two) = Occupancy(one)
            /\ eq(two, one)
            /\ eq(two, Canonical(Occupancy(two)))
            /\ two[1] = Entry(Interval(MIN, MIN + 1), {d})

\* ---- inserting twice
\* every point of k holds every identifier of ids
FullyOccupied(inner, ids, k) ==
    \A p \in k.start..k.end : ids \subseteq identifiers_at_point(inner, p)

\* C23: on a receiver-only tree as a call leaves it, for every insert(ids, I)
\* that can be called, a second insert(ids, I) returns normally and leaves
\* the store of the first, segment by segment; and when every point of I
\* already holds every identifier of ids, the first insert leaves the store
\* as it was.
C23_InsertIdempotent ==
    CanCall => \A t \in ReceiverOnly \cap Written, ids \in IdentifierSets, k \in Intervals :
        \A once \in {insert(maps[t], ids, k)} :
            /\ insert(once.inner, ids, k) = [err |-> FALSE, inner |-> once.inner]
            /\ FullyOccupied(maps[t], ids, k) => once = [err |-> FALSE, inner |-> maps[t]]

\* a receiver-only tree on which an identifier holds some points and an
\* insert can be called: inserting the identifier over an interval it holds
\* in part extends its segment, and inserting again changes nothing; an
\* insert over two points the identifier already holds changes nothing
C23_Witness ==
    /\ CanCall
    /\ \E t \in ReceiverOnly \cap Written, d \in Identifiers, k \in Intervals, held \in Intervals :
        /\ held.start < held.end
        /\ FullyOccupied(maps[t], {d}, held)
        /\ insert(maps[t], {d}, held).inner = maps[t]
        /\ ~FullyOccupied(maps[t], {d}, k)
        /\ overlaps(k, held)
        /\ \E once \in {insert(maps[t], {d}, k).inner} :
            /\ once # maps[t]
            /\ FullyOccupied(once, {d}, k)
            /\ insert(once, {d}, k).inner = once

====
